---- MODULE Spec2Model ----
(***************************************************************************)
(* A model of sqlalchemy_multiple_db/helper.py: the DBHelper registry of   *)
(* named scoped-session factories, its setup/shutdown lifecycle, the       *)
(* session_scope / get_session scoped acquisition and get_status_info.     *)
(*                                                                         *)
(* A Python dict is modelled as a sequence of [k, v] entries in insertion  *)
(* order.  An instance attribute that was never assigned (the dataclass    *)
(* fields are declared with field(init=False) and no default) is modelled  *)
(* by the flags hasSessions / hasConfig: reading it raises AttributeError. *)
(* An exception is modelled by its class name as the outcome of a call.    *)
(*                                                                         *)
(* No method of DBHelper ever assigns the attribute `sessions`; setup only *)
(* stores into it.  The only way a registry gets a session map is client   *)
(* code assigning the public dataclass field, modelled by AssignSessions.  *)
(***************************************************************************)
EXTENDS Integers, Sequences, FiniteSets, TLC

\* ---------------------------------------------------------------- bounds
\* Engines / scoped_session factories ever created by create_scoped_session.
MaxFactories == 2
\* Scopes one thread holds open at once (nested with-blocks / generators).
MaxDepth == 1
\* Entries of a mapping passed to setup.
MaxEntries == 2

\* ---------------------------------------------------------------- values
DEFAULT_DB_NAME == "default"

\* Logical database names callers use.
Names == {"default", "a"}

\* The module-level registry `db` and one more DBHelper() instance.
Instances == {"db", "other"}

Threads == {"t1", "t2"}

\* DBConfig values, told apart by their dsn (the other fields are passed on).
DBConfig == {[dsn |-> "postgresql://h/one"], [dsn |-> "not-a-url"]}

NoConfig == [dsn |-> ""]

\* create_engine parses the dsn and raises ArgumentError when it cannot.
ParsableDsn(dsn) == dsn = "postgresql://h/one"

FactoryIds == 1..MaxFactories

\* ------------------------------------------------------------ Python dict
EmptyDict == << >>

Keys(d) == {d[i].k : i \in DOMAIN d}

Has(d, k) == k \in Keys(d)

Get(d, k) == d[CHOOSE i \in DOMAIN d : d[i].k = k].v

Put(d, k, v) ==
    IF Has(d, k)
    THEN [i \in DOMAIN d |-> IF d[i].k = k THEN [k |-> k, v |-> v] ELSE d[i]]
    ELSE Append(d, [k |-> k, v |-> v])

\* Python's dict equality: same keys, same values, order ignored.
DictEq(d, e) == Keys(d) = Keys(e) /\ \A k \in Keys(d) : Get(d, k) = Get(e, k)

\* Sequences of [k, v] entries with distinct keys, at most n long.
RECURSIVE DictsUpTo(_, _, _)
DictsUpTo(ks, vs, n) ==
    IF n = 0 THEN {EmptyDict}
    ELSE LET shorter == DictsUpTo(ks, vs, n - 1) IN
         shorter \cup
         {Append(d, [k |-> k, v |-> v]) :
            d \in {x \in shorter : Len(x) = n - 1}, k \in ks, v \in vs}

ConfigDicts ==
    {d \in DictsUpTo(Names, DBConfig, MaxEntries) :
        \A i, j \in DOMAIN d : i # j => d[i].k # d[j].k}

\* What a caller passes to setup: one DBConfig, or a Dict[str, DBConfig].
SetupArgs ==
    {[isConfig |-> TRUE, cfg |-> c, items |-> EmptyDict] : c \in DBConfig}
    \cup {[isConfig |-> FALSE, cfg |-> NoConfig, items |-> d] : d \in ConfigDicts}

\* ----------------------------------------------------------------- state
VARIABLES
    hasSessions,  \* [Instances -> BOOLEAN]: the attribute `sessions` exists
    sessions,     \* [Instances -> dict name -> factory id]
    hasConfig,    \* [Instances -> BOOLEAN]: the attribute `config` exists
    config,       \* [Instances -> dict name -> DBConfig]
    factories,    \* every scoped_session made so far; its index is its id
    registry,     \* [FactoryIds -> [Threads -> "none" | "active" | "closed"]]
    stack,        \* [Threads -> the scopes the thread holds open, innermost last]
    last          \* the most recent call that returned or raised

vars == <<hasSessions, sessions, hasConfig, config, factories, registry, stack, last>>

NoLast ==
    [op |-> "none", self |-> "db", t |-> "t1", arg |-> [isConfig |-> FALSE, cfg |-> NoConfig, items |-> EmptyDict],
     name |-> "", kind |-> "", path |-> "", outcome |-> "", fresh |-> FALSE,
     f |-> 0, closed |-> 0, info |-> EmptyDict, full |-> TRUE, failing |-> {}, probed |-> << >>,
     created |-> {}, prevCreated |-> {}, removed |-> {}]

Init ==
    /\ hasSessions = [i \in Instances |-> FALSE]
    /\ sessions = [i \in Instances |-> EmptyDict]
    /\ hasConfig = [i \in Instances |-> FALSE]
    /\ config = [i \in Instances |-> EmptyDict]
    /\ factories = << >>
    /\ registry = [f \in FactoryIds |-> [t \in Threads |-> "none"]]
    /\ stack = [t \in Threads |-> << >>]
    /\ last = NoLast

\* ------------------------------------------------------ attribute lookup
\* DBHelper.__getattribute__: object.__getattribute__, and the AttributeError
\* re-raised (after a printed hint when the name is "sessions").
Methods ==
    {"create_scoped_session", "setup", "shutdown", "session_scope", "get_status_info"}

HasAttribute(i, attr) ==
    CASE attr = "sessions" -> hasSessions[i]
      [] attr = "config" -> hasConfig[i]
      [] OTHER -> attr \in Methods

\* ------------------------------------------------- create_scoped_session
create_scoped_session(cfg, facs) ==
    IF ~ParsableDsn(cfg.dsn)
    THEN [outcome |-> "ArgumentError", factories |-> facs, session |-> 0]
    ELSE [outcome |-> "ok", factories |-> Append(facs, [config |-> cfg]),
          session |-> Len(facs) + 1]

\* ------------------------------------------------------------------ setup
\* for db_name, cfg in config.items():
\*     self.sessions[db_name] = self.create_scoped_session(cfg)
\* The right-hand side is evaluated first, then self.sessions is looked up.
RECURSIVE SetupLoop(_, _, _, _, _)
SetupLoop(items, idx, hasS, sess, facs) ==
    IF idx > Len(items)
    THEN [outcome |-> "ok", sessions |-> sess, factories |-> facs]
    ELSE LET made == create_scoped_session(items[idx].v, facs) IN
         IF made.outcome # "ok"
         THEN [outcome |-> made.outcome, sessions |-> sess, factories |-> facs]
         ELSE IF ~hasS
         THEN [outcome |-> "AttributeError", sessions |-> sess,
               factories |-> made.factories]
         ELSE SetupLoop(items, idx + 1, hasS,
                        Put(sess, items[idx].k, made.session), made.factories)

\* The whole of DBHelper.setup on an instance whose attributes are `pre`.
SetupEffect(i, pre, arg, facs) ==
    IF arg.isConfig /\ ~HasAttribute(i, "DEFAULT_DB_NAME")
    THEN \* config = {self.DEFAULT_DB_NAME: config} raises before any assignment
         [outcome |-> "AttributeError", hasConfig |-> pre.hasConfig,
          config |-> pre.config, sessions |-> pre.sessions, factories |-> facs]
    ELSE LET items == IF arg.isConfig
                      THEN <<[k |-> DEFAULT_DB_NAME, v |-> arg.cfg]>>
                      ELSE arg.items
             loop == SetupLoop(items, 1, pre.hasSessions, pre.sessions, facs)
         IN [outcome |-> loop.outcome, hasConfig |-> TRUE, config |-> items,
             sessions |-> loop.sessions, factories |-> loop.factories]

Attrs(i) ==
    [hasSessions |-> hasSessions[i], sessions |-> sessions[i],
     hasConfig |-> hasConfig[i], config |-> config[i]]

setup(self, arg) ==
    /\ LET r == SetupEffect(self, Attrs(self), arg, factories) IN
       /\ Len(r.factories) <= MaxFactories
       /\ hasConfig' = [hasConfig EXCEPT ![self] = r.hasConfig]
       /\ config' = [config EXCEPT ![self] = r.config]
       /\ sessions' = [sessions EXCEPT ![self] = r.sessions]
       /\ factories' = r.factories
       /\ last' = [NoLast EXCEPT !.op = "setup", !.self = self, !.arg = arg,
                                 !.outcome = r.outcome,
                                 !.fresh = ~hasSessions[self] /\ ~hasConfig[self],
                                 !.created = (Len(factories) + 1)..Len(r.factories),
                                 !.prevCreated = IF last.op = "setup" /\ last.self = self
                                                 THEN last.created ELSE {}]
    /\ UNCHANGED <<hasSessions, registry, stack>>

\* Client code assigning the declared field: helper.sessions = {}.
AssignSessions(self) ==
    /\ ~hasSessions[self]
    /\ hasSessions' = [hasSessions EXCEPT ![self] = TRUE]
    /\ sessions' = [sessions EXCEPT ![self] = EmptyDict]
    /\ last' = [NoLast EXCEPT !.op = "assign", !.self = self]
    /\ UNCHANGED <<hasConfig, config, factories, registry, stack>>

\* ------------------------------------------- scoped_session, per thread
\* scoped_session proxies a call to the calling thread's Session, which its
\* registry creates on first use; close() leaves that Session in the registry,
\* remove() closes it and discards it.
Execute(reg, f, t) == [reg EXCEPT ![f][t] = "active"]

Close(reg, f, t) == [reg EXCEPT ![f][t] = "closed"]

Remove(reg, f, t) == [reg EXCEPT ![f][t] = "none"]

\* --------------------------------------------------------------- shutdown
\* A shutdown that walks every factory ever created, registered or not.
ShutdownLoopAll(items, idx, t, acc) ==
    [registry |-> [f \in FactoryIds |->
                     IF f <= Len(factories) THEN [acc.registry[f] EXCEPT ![t] = "none"]
                     ELSE acc.registry[f]],
     removed |-> 1..Len(factories)]

\* for session in self.sessions.values(): session.remove()
RECURSIVE ShutdownLoop(_, _, _, _)
ShutdownLoop(items, idx, t, acc) ==
    IF idx > Len(items) THEN acc
    ELSE ShutdownLoop(items, idx + 1, t,
                      [registry |-> Remove(acc.registry, items[idx].v, t),
                       removed |-> acc.removed \cup {items[idx].v}])

\* A shutdown that also empties both maps after releasing the sessions.
shutdown_clearing(self, t) ==
    /\ IF ~HasAttribute(self, "sessions")
       THEN /\ last' = [NoLast EXCEPT !.op = "shutdown", !.self = self, !.t = t,
                                      !.outcome = "AttributeError"]
            /\ UNCHANGED <<registry, sessions, config>>
       ELSE LET r == ShutdownLoop(sessions[self], 1, t,
                                  [registry |-> registry, removed |-> {}])
            IN /\ registry' = r.registry
               /\ sessions' = [sessions EXCEPT ![self] = EmptyDict]
               /\ config' = [config EXCEPT ![self] = EmptyDict]
               /\ last' = [NoLast EXCEPT !.op = "shutdown", !.self = self, !.t = t,
                                         !.outcome = "ok", !.removed = r.removed,
                                         !.prevCreated =
                                             IF last.op = "setup" /\ last.self = self
                                             THEN last.prevCreated ELSE {}]
    /\ UNCHANGED <<hasSessions, hasConfig, factories, stack>>

shutdown(self, t) ==
    /\ IF ~HasAttribute(self, "sessions")
       THEN /\ last' = [NoLast EXCEPT !.op = "shutdown", !.self = self, !.t = t,
                                      !.outcome = "AttributeError"]
            /\ UNCHANGED registry
       ELSE LET r == ShutdownLoop(sessions[self], 1, t,
                                  [registry |-> registry, removed |-> {}])
            IN /\ registry' = r.registry
               /\ last' = [NoLast EXCEPT !.op = "shutdown", !.self = self, !.t = t,
                                         !.outcome = "ok", !.removed = r.removed,
                                         !.prevCreated =
                                             IF last.op = "setup" /\ last.self = self
                                             THEN last.prevCreated ELSE {}]
    /\ UNCHANGED <<hasSessions, sessions, hasConfig, config, factories, stack>>

\* ---------------------------------------------- session_scope, get_session
\* session = db.sessions[db_name]: both read the module-level instance `db`.
Lookup(db_name) ==
    IF ~HasAttribute("db", "sessions") THEN [outcome |-> "AttributeError", f |-> 0]
    ELSE IF ~Has(sessions["db"], db_name) THEN [outcome |-> "KeyError", f |-> 0]
    ELSE [outcome |-> "ok", f |-> Get(sessions["db"], db_name)]

\* The code up to the yield: on "ok" the scope is open and holds the session.
Enter(kind, self, t, db_name) ==
    /\ LET got == Lookup(db_name) IN
       /\ stack' = IF got.outcome = "ok"
                   THEN [stack EXCEPT ![t] = Append(@, [kind |-> kind, f |-> got.f])]
                   ELSE stack
       /\ last' = [NoLast EXCEPT !.op = "enter", !.kind = kind, !.self = self, !.t = t,
                                 !.name = db_name, !.outcome = got.outcome,
                                 !.f = got.f]
    /\ UNCHANGED <<hasSessions, sessions, hasConfig, config, factories, registry>>

\* The body of the scope using the session it was given.
Use(t) ==
    /\ stack[t] # << >>
    /\ registry' = Execute(registry, stack[t][Len(stack[t])].f, t)
    /\ last' = [NoLast EXCEPT !.op = "use", !.t = t]
    /\ UNCHANGED <<hasSessions, sessions, hasConfig, config, factories, stack>>

\* finally: session.close(), on the body's normal end ("return") and when an
\* exception is thrown in at the yield ("raise").
session_scope_exit_no_finally(reg, f, t, path) ==
    IF path = "raise" THEN [registry |-> reg, closed |-> 0]
    ELSE [registry |-> Close(reg, f, t), closed |-> 1]

get_session_exit_no_finally(reg, f, t, path) ==
    IF path = "raise" THEN [registry |-> reg, closed |-> 0]
    ELSE [registry |-> Close(reg, f, t), closed |-> 1]

session_scope_exit(reg, f, t, path) == [registry |-> Close(reg, f, t), closed |-> 1]

get_session_exit(reg, f, t, path) == [registry |-> Close(reg, f, t), closed |-> 1]

Exit(t, path) ==
    /\ stack[t] # << >>
    /\ LET frame == stack[t][Len(stack[t])]
           r == IF frame.kind = "session_scope"
                THEN session_scope_exit(registry, frame.f, t, path)
                ELSE get_session_exit(registry, frame.f, t, path)
       IN /\ registry' = r.registry
          /\ stack' = [stack EXCEPT ![t] = SubSeq(@, 1, Len(@) - 1)]
          /\ last' = [NoLast EXCEPT !.op = "exit", !.kind = frame.kind, !.t = t,
                                    !.f = frame.f, !.path = path,
                                    !.closed = r.closed,
                                    !.outcome = IF path = "raise" THEN "BodyError" ELSE "ok"]
    /\ UNCHANGED <<hasSessions, sessions, hasConfig, config, factories>>

session_scope(self, t, db_name) == Enter("session_scope", self, t, db_name)

get_session(t, db_name) == Enter("get_session", "db", t, db_name)

\* -------------------------------------------------------- get_status_info
\* Python values of the result: the dict {"status": s} and a tuple.
StatusDict(s) == [type |-> "dict", status |-> s, items |-> << >>]

Tuple(a, b) == [type |-> "tuple", status |-> "", items |-> <<a, b>>]

\* full_status_info[db_name] = {"status": "OK"} if status else {"status": "FAILED"}, status
StatusEntry(status) ==
    Tuple(IF status THEN StatusDict("OK") ELSE StatusDict("FAILED"), status)

\* The loop with the try around it instead of inside it: the first failing
\* probe ends the call.
RECURSIVE ProbeLoopAbort(_, _, _, _, _)
ProbeLoopAbort(items, idx, t, failing, acc) ==
    IF idx > Len(items) THEN acc
    ELSE LET db_name == items[idx].k
             f == items[idx].v
             status == db_name \notin failing
             step == [registry |-> Close(Execute(acc.registry, f, t), f, t),
                      info |-> Put(acc.info, db_name, StatusEntry(status)),
                      full |-> acc.full /\ status,
                      probed |-> Append(acc.probed, db_name),
                      outcome |-> "ok"]
         IN IF status THEN ProbeLoopAbort(items, idx + 1, t, failing, step)
            ELSE [step EXCEPT !.outcome = "OperationalError"]

\* One iteration: execute raises for the names in `failing`; the except clause
\* clears both flags; finally closes the thread's session.
RECURSIVE ProbeLoop(_, _, _, _, _)
ProbeLoop(items, idx, t, failing, acc) ==
    IF idx > Len(items) THEN acc
    ELSE LET db_name == items[idx].k
             f == items[idx].v
             status == db_name \notin failing
         IN ProbeLoop(items, idx + 1, t, failing,
                      [registry |-> Close(Execute(acc.registry, f, t), f, t),
                       info |-> Put(acc.info, db_name, StatusEntry(status)),
                       full |-> acc.full /\ status,
                       probed |-> Append(acc.probed, db_name),
                       outcome |-> "ok"])

\* A get_status_info that drops the entries whose probe failed from the map.
get_status_info_dropping_failed(self, t, failing) ==
    /\ failing \subseteq Keys(sessions[self])
    /\ IF ~HasAttribute(self, "sessions")
       THEN /\ last' = [NoLast EXCEPT !.op = "get_status_info", !.self = self, !.t = t,
                                      !.outcome = "AttributeError"]
            /\ UNCHANGED <<registry, sessions>>
       ELSE LET r == ProbeLoop(sessions[self], 1, t, failing,
                               [registry |-> registry, info |-> EmptyDict,
                                full |-> TRUE, probed |-> << >>, outcome |-> "ok"])
                kept(e) == e.k \notin failing
            IN /\ registry' = r.registry
               /\ sessions' = [sessions EXCEPT ![self] = SelectSeq(@, kept)]
               /\ last' = [NoLast EXCEPT !.op = "get_status_info", !.self = self, !.t = t,
                                         !.outcome = r.outcome, !.info = r.info,
                                         !.full = r.full, !.failing = failing,
                                         !.probed = r.probed]
    /\ UNCHANGED <<hasSessions, hasConfig, config, factories, stack>>

get_status_info(self, t, failing) ==
    /\ failing \subseteq Keys(sessions[self])
    /\ IF ~HasAttribute(self, "sessions")
       THEN /\ last' = [NoLast EXCEPT !.op = "get_status_info", !.self = self, !.t = t,
                                      !.outcome = "AttributeError"]
            /\ UNCHANGED registry
       ELSE LET r == ProbeLoop(sessions[self], 1, t, failing,
                               [registry |-> registry, info |-> EmptyDict,
                                full |-> TRUE, probed |-> << >>, outcome |-> "ok"])
            IN /\ registry' = r.registry
               /\ last' = [NoLast EXCEPT !.op = "get_status_info", !.self = self, !.t = t,
                                         !.outcome = r.outcome, !.info = r.info,
                                         !.full = r.full, !.failing = failing,
                                         !.probed = r.probed]
    /\ UNCHANGED <<hasSessions, sessions, hasConfig, config, factories, stack>>

\* ---------------------------------------------------------- specification
\* The calls made on the module-level registry by one thread.
MainInstances == {"db"}

MainThreads == {"t1"}

Next ==
    \/ \E self \in MainInstances, arg \in SetupArgs : setup(self, arg)
    \/ \E self \in MainInstances : AssignSessions(self)
    \/ \E self \in MainInstances, t \in MainThreads : shutdown(self, t)
    \/ \E self \in MainInstances, t \in MainThreads, n \in Names :
          Len(stack[t]) < MaxDepth /\ session_scope(self, t, n)
    \/ \E t \in MainThreads, n \in Names :
          Len(stack[t]) < MaxDepth /\ get_session(t, n)
    \/ \E t \in MainThreads : Use(t)
    \/ \E t \in MainThreads, path \in {"return", "raise"} : Exit(t, path)
    \/ \E self \in MainInstances, t \in MainThreads, failing \in SUBSET Names :
          get_status_info(self, t, failing)

Spec == Init /\ [][Next]_vars

\* Scopes that overlap: two threads, and scopes nested one deeper in a thread,
\* on the module-level registry set up with parsable configs only.
NestDepth == MaxDepth + 1

ValidArgs == {arg \in SetupArgs : ~arg.isConfig /\ \A i \in DOMAIN arg.items :
                                                    ParsableDsn(arg.items[i].v.dsn)}

\* Mappings that register one database per setup call.
OverlapArgs == {arg \in ValidArgs : Len(arg.items) = 1}

NextOverlap ==
    \/ \E arg \in OverlapArgs : setup("db", arg)
    \/ AssignSessions("db")
    \/ \E t \in Threads, n \in Names :
          Len(stack[t]) < NestDepth /\ session_scope("db", t, n)
    \/ \E t \in Threads, n \in Names :
          Len(stack[t]) < NestDepth /\ get_session(t, n)
    \/ \E t \in Threads : Use(t)
    \/ \E t \in Threads, path \in {"return", "raise"} : Exit(t, path)

SpecOverlap == Init /\ [][NextOverlap]_vars

\* Two registries, the module-level db and another DBHelper(), used by one
\* thread.
NextTwo ==
    \/ \E self \in Instances, arg \in ValidArgs : setup(self, arg)
    \/ \E self \in Instances : AssignSessions(self)
    \/ \E self \in Instances, t \in MainThreads, n \in Names :
          Len(stack[t]) < MaxDepth /\ session_scope(self, t, n)
    \/ \E t \in MainThreads : Use(t)
    \/ \E t \in MainThreads, path \in {"return", "raise"} : Exit(t, path)

SpecTwo == Init /\ [][NextTwo]_vars

\* ================================================================ claims
Supplied(arg) == IF arg.isConfig THEN {DEFAULT_DB_NAME} ELSE Keys(arg.items)

AllValid(arg) ==
    IF arg.isConfig THEN ParsableDsn(arg.cfg.dsn)
    ELSE \A i \in DOMAIN arg.items : ParsableDsn(arg.items[i].v.dsn)

\* The keys of an attribute that may not exist yet.
SessionKeys(i) == IF hasSessions[i] THEN Keys(sessions[i]) ELSE {}

ConfigKeys(i) == IF hasConfig[i] THEN Keys(config[i]) ELSE {}

\* What the result of get_status_info reports for one name.
ReportedStatus(entry) ==
    IF entry.type = "tuple" THEN entry.items[1].status ELSE entry.status

\* C1: after setup(mapping) with a non-empty mapping of valid configs on a
\* freshly constructed registry, setup has returned normally, every supplied
\* name has exactly one session factory and session_scope(name) would yield.
C1_SetupRegistersEveryName ==
    (/\ last.op = "setup" /\ last.fresh /\ last.self = "db"
     /\ ~last.arg.isConfig /\ last.arg.items # EmptyDict /\ AllValid(last.arg))
    => /\ last.outcome = "ok"
       /\ \A n \in Supplied(last.arg) :
            /\ Cardinality({i \in DOMAIN sessions["db"] : sessions["db"][i].k = n}) = 1
            /\ Lookup(n).outcome = "ok"

\* C2: a setup(c) call with a single DBConfig c leaves the registry as
\* setup({"default": c}) would have left it from the same state, and then
\* session_scope() yields the factory built from c.
C2_SingleConfigIsDefaultMapping ==
    [][(last'.op = "setup" /\ last'.arg.isConfig /\ last'.self = "db")
       => LET c == last'.arg.cfg
              m == [isConfig |-> FALSE, cfg |-> NoConfig,
                    items |-> <<[k |-> DEFAULT_DB_NAME, v |-> c]>>]
              e == SetupEffect("db", Attrs("db"), m, factories)
          IN /\ last'.outcome = e.outcome
             /\ hasConfig'["db"] = e.hasConfig
             /\ DictEq(config'["db"], e.config)
             /\ DictEq(sessions'["db"], e.sessions)
             /\ ParsableDsn(c.dsn) =>
                  /\ Lookup(DEFAULT_DB_NAME)'.outcome = "ok"
                  /\ factories'[Lookup(DEFAULT_DB_NAME)'.f].config = c]_vars

\* C3: when a session_scope scope has exited, by its body completing or by
\* its body raising, the scope has called close() on the session it yielded
\* exactly once and the session is closed.
C3_SessionScopeClosesOnce ==
    (last.op = "exit" /\ last.kind = "session_scope")
    => last.closed = 1 /\ registry[last.f][last.t] = "closed"

C3_Witness ==
    /\ last.op = "exit" /\ last.kind = "session_scope" /\ last.path = "raise"
    /\ last.closed = 1

\* C4: get_session(db_name) yields the session registered under db_name in
\* the global registry db, and when the generator is exhausted or an error is
\* thrown into it, it has closed that session exactly once.
C4_GetSessionContract ==
    /\ (last.op = "enter" /\ last.kind = "get_session" /\ last.outcome = "ok")
       => /\ hasSessions["db"] /\ Has(sessions["db"], last.name)
          /\ last.f = Get(sessions["db"], last.name)
          /\ stack[last.t][Len(stack[last.t])].f = last.f
    /\ (last.op = "exit" /\ last.kind = "get_session")
       => last.closed = 1 /\ registry[last.f][last.t] = "closed"

C4_Witness ==
    /\ last.op = "exit" /\ last.kind = "get_session" /\ last.path = "raise"
    /\ last.closed = 1 /\ registry[last.f][last.t] = "closed"

\* C5: right after a successful setup, session_scope(name) and
\* get_session(name) for a name that is not registered and was not supplied to
\* that setup fail with UnknownDatabaseError, yielding nothing.
C5_UnknownNameRaisesTypedError ==
    [][(/\ last.op = "setup" /\ last.outcome = "ok" /\ last.self = "db"
        /\ last'.op = "enter"
        /\ last'.name \notin Supplied(last.arg) \cup SessionKeys("db"))
       => last'.outcome = "UnknownDatabaseError" /\ stack' = stack]_vars

\* C6: on a registry on which setup never got as far as storing its config,
\* session_scope, get_session and get_status_info fail with NotConfiguredError.
C6_NotConfiguredRaisesTypedError ==
    (/\ last.op \in {"enter", "get_status_info"}
     /\ ~hasConfig[last.self] /\ ~hasConfig["db"])
    => last.outcome = "NotConfiguredError"

\* C7: get_status_info returns (statuses, aggregate) where statuses maps every
\* registered name to exactly the record {status: "OK"} or {status: "FAILED"},
\* and aggregate is true iff every record is "OK".
C7_StatusRecordsAndAggregate ==
    (last.op = "get_status_info" /\ last.outcome = "ok")
    => /\ Keys(last.info) = SessionKeys(last.self)
       /\ \A n \in Keys(last.info) :
            Get(last.info, n) \in {StatusDict("OK"), StatusDict("FAILED")}
       /\ last.full = (\A n \in Keys(last.info) : Get(last.info, n) = StatusDict("OK"))

C9_ScopeFailsAfterShutdown ==
    [][(/\ last.op = "shutdown" /\ last.outcome = "ok"
        /\ last'.op = "enter" /\ last'.kind = "session_scope")
       => last'.outcome # "ok" /\ stack' = stack]_vars

\* C10: in every reachable state a name is a key of the name-to-config map
\* iff it is a key of the name-to-session-factory map.
C10_MapsHaveTheSameKeys ==
    \A i \in Instances : ConfigKeys(i) = SessionKeys(i)

Maps == <<hasSessions, sessions, hasConfig, config>>

\* C11: get_status_info right after setup({}) on a freshly constructed
\* registry returns an empty status mapping and the aggregate true, and does
\* not raise.
C11_EmptyRegistryStatus ==
    [][(/\ last.op = "setup" /\ last.fresh /\ last.outcome = "ok"
        /\ ~last.arg.isConfig /\ last.arg.items = EmptyDict
        /\ last'.op = "get_status_info" /\ last'.self = last.self)
       => /\ last'.outcome = "ok"
          /\ last'.info = EmptyDict
          /\ last'.full = TRUE]_vars

\* C12: a shutdown call, whether it returns or raises, leaves the key sets and
\* the entries of the name-to-config map and of the name-to-session-factory
\* map as they were, and a registry that had its maps still has them.
C12_ShutdownKeepsMaps ==
    [][(last'.op = "shutdown") => Maps' = Maps]_vars

C12_Witness ==
    /\ last.op = "shutdown" /\ last.outcome = "ok" /\ last.removed # {}
    /\ hasSessions[last.self] /\ sessions[last.self] # EmptyDict
    /\ hasConfig[last.self] /\ config[last.self] # EmptyDict

\* C13: shutdown on a registry whose setup was never called either raises
\* NotConfiguredError or returns having changed nothing; it fails with no
\* other error.
C13_ShutdownBeforeSetup ==
    [][(last'.op = "shutdown" /\ ~hasConfig[last'.self])
       => \/ last'.outcome = "NotConfiguredError"
          \/ /\ last'.outcome = "ok"
             /\ Maps' = Maps /\ registry' = registry /\ stack' = stack]_vars

\* C14: a setup call given a config whose dsn cannot be parsed fails with
\* ConfigError and does not complete.
C14_MalformedDsnRaisesConfigError ==
    (last.op = "setup" /\ ~AllValid(last.arg)) => last.outcome = "ConfigError"

\* The factories an instance's session map holds.
Registered(i) == {sessions[i][k].v : k \in DOMAIN sessions[i]}

\* C15: a get_status_info call leaves every session that an open scope of the
\* calling thread holds as it was: its probes use sessions of their own and do
\* not close the one the scope is still using.
C15_ProbeLeavesHeldSessions ==
    [][(last'.op = "get_status_info")
       => \A k \in DOMAIN stack[last'.t] :
            registry'[stack[last'.t][k].f][last'.t]
              = registry[stack[last'.t][k].f][last'.t]]_vars

C18_OnlyLifecycleMutatesMaps ==
    [][(last'.op \in {"enter", "exit", "get_status_info"}) => Maps' = Maps]_vars

C18_Witness ==
    /\ last.op = "get_status_info" /\ last.outcome = "ok" /\ last.failing # {}
    /\ sessions[last.self] # EmptyDict /\ config[last.self] # EmptyDict

\* C20: a setup call that raises leaves the name-to-config map and the
\* name-to-session-factory map as they were before the call.
C20_FailedSetupChangesNothing ==
    [][(last'.op = "setup" /\ last'.outcome # "ok") => Maps' = Maps]_vars

\* The open scopes, each named by its thread and its place in the thread's stack.
OpenScopes == {<<t, k>> : t \in Threads, k \in 1..NestDepth}

\* C16: no two open scopes hold the same session (the calling thread's session
\* of the factory they were given), and the exit of a scope leaves the session
\* of every scope that is still open, in any thread, as it was.
C16_ScopesOwnTheirSessions ==
    [][/\ \A x, y \in OpenScopes :
            (/\ x # y
             /\ x[2] \in DOMAIN stack'[x[1]] /\ y[2] \in DOMAIN stack'[y[1]])
            => <<stack'[x[1]][x[2]].f, x[1]>> # <<stack'[y[1]][y[2]].f, y[1]>>
       /\ (last'.op = "exit")
            => \A u \in Threads : \A j \in DOMAIN stack'[u] :
                 registry'[stack'[u][j].f][u] = registry[stack'[u][j].f][u]]_vars

\* C19: session_scope(db_name) called on a registry instance yields exactly
\* when that instance has db_name registered, and then yields the factory that
\* instance registered under db_name, never another instance's.
C19_ScopeYieldsOwnFactory ==
    (last.op = "enter" /\ last.kind = "session_scope")
    => /\ (last.outcome = "ok")
            => /\ hasSessions[last.self] /\ Has(sessions[last.self], last.name)
               /\ last.f = Get(sessions[last.self], last.name)
       /\ (hasSessions[last.self] /\ Has(sessions[last.self], last.name))
            => last.outcome = "ok"
====
